---- MODULE Spec2Model ----
(***************************************************************************)
(* A model of lbrytools/funcs.py: the daemon probe (check_lbry and         *)
(* start_lbry), the output writer (print_content) and the name sanitizer   *)
(* (sanitize_name).  One caller invokes the functions one at a time; a     *)
(* call that blocks inside subprocess.run stays at pc = "waiting" until    *)
(* the launched process has terminated.                                    *)
(***************************************************************************)
EXTENDS Integers, Sequences, FiniteSets, TLC

VARIABLES
    pc,            \* "idle" | "waiting" (blocked in subprocess.run) | "done"
    fn,            \* the function being called
    args,          \* the arguments and the environment's answers of the call
    outcome,       \* how the call ended: [kind, val]
    stdout,        \* what the call printed, in order
    launches,      \* calls of start_lbry made during the call
    proc,          \* the `lbrynet start` child: "none" | "running" | "exited"
    fileState,     \* the destination file: "none" | "open" | "closed"
    fileData,      \* the characters written to the destination file
    EMOJI_LOADED   \* module global set at import time

vars == <<pc, fn, args, outcome, stdout, launches, proc, fileState, fileData,
          EMOJI_LOADED>>

-----------------------------------------------------------------------------
(* Bounds of the model *)

MaxLines == 2      \* longest output_list
MaxLineLen == 1    \* longest line of output_list
MaxText == 3       \* longest text given to sanitize_name

RECURSIVE SeqsUpTo(_, _)
SeqsUpTo(S, n) ==
    IF n = 0 THEN {<<>>}
    ELSE LET shorter == SeqsUpTo(S, n - 1)
         IN  shorter \cup {Append(s, x) : s \in {t \in shorter : Len(t) = n - 1}, x \in S}

NoOutcome == [kind |-> "none", val |-> "none"]
Returned(v) == [kind |-> "return", val |-> v]
Raised(e) == [kind |-> "raise", val |-> e]
NoArgs == [call |-> "none"]

-----------------------------------------------------------------------------
(* JSON values as check_lbry looks at them.  `has` says whether the key    *)
(* the code tests with `in` is found in the value (a key of an object, an  *)
(* element of an array, a substring of a string); `truthy` is the truth    *)
(* value of result["is_running"] when result is an object holding it.      *)

NoValue == [type |-> "null", has |-> FALSE, truthy |-> FALSE]

ResultValues ==
    [type : {"object"}, has : {TRUE}, truthy : BOOLEAN]
    \cup [type : {"object", "string", "array"}, has : {FALSE}, truthy : {FALSE}]
    \cup [type : {"string", "array"}, has : {TRUE}, truthy : {FALSE}]
    \cup [type : {"null", "number"}, has : {FALSE}, truthy : {FALSE}]

Outputs ==
    [type : {"object"}, has : {TRUE}, result : ResultValues]
    \cup [type : {"object", "array", "null"}, has : {FALSE}, result : {NoValue}]
    \cup [type : {"array"}, has : {TRUE}, result : {NoValue}]

NoOutput == [type |-> "null", has |-> FALSE, result |-> NoValue]

\* What requests.post(server, json=msg).json() does: the exception it raises,
\* or "ok" and the decoded body.
Requests ==
    [net : {"ConnectionError", "ReadTimeout", "JSONDecodeError"}, output : {NoOutput}]
    \cup [net : {"ok"}, output : Outputs]

\* Python's `key in v`: "True", "False", or "TypeError" when v is no container.
PyIn(v) ==
    IF v.type \in {"null", "number"} THEN "TypeError"
    ELSE IF v.has THEN "True" ELSE "False"

\* Python's v[key] for a string key can be evaluated on an object only.
PySubscriptable(v) == v.type = "object"

\* except requests.exceptions.ConnectionError
TrapsNothing(exc) == FALSE
Traps(exc) == exc = "ConnectionError"

\* "result" not in output
NoResultInverted(output) ==
    CASE PyIn(output) = "TypeError" -> "TypeError"
      [] PyIn(output) = "True" -> "True"
      [] OTHER -> "False"
NoResult(output) ==
    CASE PyIn(output) = "TypeError" -> "TypeError"
      [] PyIn(output) = "True" -> "False"
      [] OTHER -> "True"

\* "is_running" in output["result"] and output["result"]["is_running"]
IsRunningKeyOnly(output) ==
    IF ~PySubscriptable(output) THEN "TypeError"
    ELSE PyIn(output.result)
IsRunningNegated(output) ==
    IF ~PySubscriptable(output) THEN "TypeError"
    ELSE CASE PyIn(output.result) = "TypeError" -> "TypeError"
           [] PyIn(output.result) = "False" -> "False"
           [] OTHER -> IF ~PySubscriptable(output.result) THEN "TypeError"
                       ELSE IF output.result.truthy THEN "False" ELSE "True"
IsRunning(output) ==
    IF ~PySubscriptable(output) THEN "TypeError"
    ELSE CASE PyIn(output.result) = "TypeError" -> "TypeError"
           [] PyIn(output.result) = "False" -> "False"
           [] OTHER -> IF ~PySubscriptable(output.result) THEN "TypeError"
                       ELSE IF output.result.truthy THEN "True" ELSE "False"

\* One print call: what it is for and the text it prints (print adds the
\* line end).
Msg(kind, text) == [kind |-> kind, text |-> text]

NoResultMsg == Msg("diagnostic", <<">>> No 'result' in the JSON-RPC server output">>)
ErrMsg(err) == Msg("error", <<err>>)

\* The path check_lbry takes up to its return, its raise or its call of
\* start_lbry: what it prints, whether it calls start_lbry, and how it ends
\* when start_lbry is not called.
Path(printed, launch, end) == [printed |-> printed, launch |-> launch, end |-> end]

check_lbry(req) ==
    IF req.net # "ok"
    THEN IF Traps(req.net)
         THEN Path(<<ErrMsg(req.net)>>, TRUE, NoOutcome)
         ELSE Path(<<>>, FALSE, Raised(req.net))
    ELSE CASE NoResult(req.output) = "TypeError" -> Path(<<>>, FALSE, Raised("TypeError"))
           [] NoResult(req.output) = "True" -> Path(<<NoResultMsg>>, TRUE, NoOutcome)
           [] OTHER ->
                CASE IsRunning(req.output) = "TypeError" -> Path(<<>>, FALSE, Raised("TypeError"))
                  [] IsRunning(req.output) = "True" -> Path(<<>>, FALSE, Returned("True"))
                  [] OTHER -> Path(<<>>, TRUE, NoOutcome)

-----------------------------------------------------------------------------
(* print_content.  Strings are sequences of one-character strings.         *)

Chars == {"a", "b"}
Lines == SeqsUpTo(Chars, MaxLineLen)
OutputLists == SeqsUpTo(Lines, MaxLines)

\* file=None, file="" and two paths, one with a directory part.
Files ==
    [given : {FALSE}, path : {<<>>}]
    \cup [given : {TRUE}, path : {<<>>, <<"f">>, <<"d", "/", "f">>}]

\* What open(file, "w") does.
OpenOutcomes == {"ok", "FileNotFoundError", "PermissionError", "IsADirectoryError"}

\* The local time time.localtime() reports.
Clocks == {[Y |-> 2021, m |-> 3, d |-> 7, H |-> 9, M |-> 41]}

\* Truth value of the `file` argument: None and "" are false.
Truthy(file) == file.given /\ file.path # <<>>

\* "\n".join(output_list)
RECURSIVE JoinTrailing(_)
JoinTrailing(list) ==
    IF list = <<>> THEN <<>>
    ELSE Head(list) \o <<"\n">> \o JoinTrailing(Tail(list))
RECURSIVE Join(_)
Join(list) ==
    IF list = <<>> THEN <<>>
    ELSE IF Len(list) = 1 THEN Head(list)
    ELSE Head(list) \o <<"\n">> \o Join(Tail(list))

\* Index of the last "/" of p, 0 when there is none.
RECURSIVE RFindSlash(_)
RFindSlash(p) ==
    IF p = <<>> THEN 0
    ELSE IF p[Len(p)] = "/" THEN Len(p)
    ELSE RFindSlash(SubSeq(p, 1, Len(p) - 1))

RECURSIVE RStripSlash(_)
RStripSlash(p) ==
    IF p # <<>> /\ p[Len(p)] = "/" THEN RStripSlash(SubSeq(p, 1, Len(p) - 1))
    ELSE p

\* os.path.dirname and os.path.basename (posixpath.split)
Dirname(p) ==
    LET head == SubSeq(p, 1, RFindSlash(p))
    IN  IF RStripSlash(head) = <<>> THEN head ELSE RStripSlash(head)
Basename(p) == SubSeq(p, RFindSlash(p) + 1, Len(p))

\* os.path.join(a, b)
PathJoin(a, b) ==
    IF b # <<>> /\ b[1] = "/" THEN b
    ELSE IF a = <<>> \/ a[Len(a)] = "/" THEN a \o b
    ELSE a \o <<"/">> \o b

DigitChars == <<"0", "1", "2", "3", "4", "5", "6", "7", "8", "9">>
RECURSIVE Pow10(_)
Pow10(n) == IF n = 0 THEN 1 ELSE 10 * Pow10(n - 1)
\* n as w decimal digits, zero padded
Pad(n, w) == [i \in 1..w |-> DigitChars[((n \div Pow10(w - i)) % 10) + 1]]

\* time.strftime("%Y%m%d_%H%M", now) + "_"
DatePrefix(now) ==
    Pad(now.Y, 4) \o Pad(now.m, 2) \o Pad(now.d, 2) \o <<"_">>
    \o Pad(now.H, 2) \o Pad(now.M, 2) \o <<"_">>

\* The path print_content opens.
FinalPath(file, fdate, now) ==
    PathJoin(Dirname(file.path),
             (IF fdate THEN DatePrefix(now) ELSE <<>>) \o Basename(file.path))

\* `if file and fd:` chooses the file; its `else:` chooses standard output.
UseFile(file, fd) == Truthy(file) /\ fd # 0
ElseMissing(file, fd) == TRUE
ToStdout(file, fd) == ~UseFile(file, fd)

\* print_content(output_list, file, fdate) where open answers `opened` and
\* the clock reads `now`: what is printed, the file's state and data, and
\* how the call ends.
print_content(output_list, file, fdate, opened, now) ==
    LET path == IF Truthy(file) THEN FinalPath(file, fdate, now) ELSE file.path
        fd == IF Truthy(file) /\ opened = "ok" THEN 1 ELSE 0   \* 0, or the file object
        failed == Truthy(file) /\ opened \in {"FileNotFoundError", "PermissionError"}
        report == IF failed
                  THEN <<Msg("error", <<"Cannot open file for writing; ", opened>>)>>
                  ELSE <<>>
        content == Join(output_list)
    IN  IF Truthy(file) /\ opened \notin {"ok", "FileNotFoundError", "PermissionError"}
        THEN [stdout |-> <<>>, fileState |-> "none", fileData |-> <<>>,
              outcome |-> Raised(opened)]
        ELSE [stdout |-> report
                         \o (IF UseFile(file, fd)
                             THEN <<Msg("summary", <<"Summary written: ">> \o path)>>
                             ELSE <<>>)
                         \o (IF ToStdout(file, fd)
                             THEN <<Msg("content", content)>>
                             ELSE <<>>),
              fileState |-> IF UseFile(file, fd) THEN "closed"
                            ELSE IF fd # 0 THEN "open" ELSE "none",
              fileData |-> IF UseFile(file, fd) THEN content \o <<"\n">> ELSE <<>>,
              outcome |-> Returned(content)]

-----------------------------------------------------------------------------
(* sanitize_name.  A text is a sequence of code points.                    *)

Placeholder == 10074        \* U+275A
RegionalFirst == 127462     \* U+1F1E6
RegionalLast == 127487      \* U+1F1FF

\* The code points texts are made of: a letter, the code points just outside
\* and at both ends of the regional indicators, an emoji, the joiner of
\* emoji sequences, and the placeholder itself.
CodePoints == {65, 8205, Placeholder, RegionalFirst - 1, RegionalFirst,
               RegionalLast, RegionalLast + 1, 128512}
Texts == SeqsUpTo(CodePoints, MaxText)

\* Keys of emoji.UNICODE_EMOJI['en']: strings of one or more code points.
EmojiKeys == {<<128512>>, <<169>>, <<10084, 65039>>,
              <<RegionalFirst + 20, RegionalFirst + 18>>,
              <<128104, 8205, 128187>>}

\* emoji_dict: the dataset when the emoji package is loaded, else "".
EmojiDict(loaded) == IF loaded THEN EmojiKeys ELSE {}

\* regex.findall(u'[\U0001F1E6-\U0001F1FF]', text)
Flags(text) ==
    SelectSeq(text, LAMBDA c : c >= RegionalFirst /\ c <= RegionalLast)

InSeq(x, seq) == \E i \in 1..Len(seq) : seq[i] = x

\* character in emoji_dict or character in flags
IsFlaggedAnd(character, emoji_dict, flags) ==
    <<character>> \in emoji_dict /\ InSeq(character, flags)
IsFlagged(character, emoji_dict, flags) ==
    <<character>> \in emoji_dict \/ InSeq(character, flags)

\* One round of the loop: what is appended to name_normalized.
SanitizeCharNoElse(character, emoji_dict, flags) ==
    IF IsFlagged(character, emoji_dict, flags)
    THEN <<Placeholder, character>>
    ELSE <<character>>
SanitizeChar(character, emoji_dict, flags) ==
    IF IsFlagged(character, emoji_dict, flags)
    THEN <<Placeholder>>
    ELSE <<character>>

RECURSIVE SanitizeLoop(_, _, _)
SanitizeLoop(rest, emoji_dict, flags) ==
    IF rest = <<>> THEN <<>>
    ELSE SanitizeChar(Head(rest), emoji_dict, flags)
         \o SanitizeLoop(Tail(rest), emoji_dict, flags)

sanitize_name(text, loaded) == SanitizeLoop(text, EmojiDict(loaded), Flags(text))

-----------------------------------------------------------------------------

Init ==
    /\ pc = "idle"
    /\ fn = "none"
    /\ args = NoArgs
    /\ outcome = NoOutcome
    /\ stdout = <<>>
    /\ launches = 0
    /\ proc = "none"
    /\ fileState = "none"
    /\ fileData = <<>>
    /\ EMOJI_LOADED \in BOOLEAN

\* subprocess.run(["lbrynet", "start"], ...) up to the point where it waits
\* for the child: the child is spawned, or FileNotFoundError is raised when
\* there is no lbrynet executable.
Spawn(exe) ==
    /\ launches' = launches + 1
    /\ IF exe
       THEN /\ proc' = "running"
            /\ pc' = "waiting"
            /\ outcome' = NoOutcome
       ELSE /\ proc' = "none"
            /\ pc' = "done"
            /\ outcome' = Raised("FileNotFoundError")

CallStartLbry ==
    /\ pc = "idle"
    /\ \E exe \in BOOLEAN :
        /\ fn' = "start_lbry"
        /\ args' = [call |-> "start_lbry", exe |-> exe]
        /\ Spawn(exe)
    /\ UNCHANGED <<stdout, fileState, fileData, EMOJI_LOADED>>

CallCheckLbry ==
    /\ pc = "idle"
    /\ \E req \in Requests, exe \in BOOLEAN :
        LET p == check_lbry(req) IN
        /\ fn' = "check_lbry"
        /\ args' = [call |-> "check_lbry", req |-> req, exe |-> exe]
        /\ stdout' = p.printed
        /\ IF p.launch
           THEN Spawn(exe)
           ELSE /\ pc' = "done"
                /\ outcome' = p.end
                /\ UNCHANGED <<launches, proc>>
    /\ UNCHANGED <<fileState, fileData, EMOJI_LOADED>>

CallPrintContent ==
    /\ pc = "idle"
    /\ \E output_list \in OutputLists, file \in Files, fdate \in BOOLEAN,
          opened \in OpenOutcomes, now \in Clocks :
        LET r == print_content(output_list, file, fdate, opened, now) IN
        /\ fn' = "print_content"
        /\ args' = [call |-> "print_content", output_list |-> output_list,
                    file |-> file, fdate |-> fdate,
                    opened |-> IF Truthy(file) THEN opened ELSE "none"]
        /\ stdout' = r.stdout
        /\ fileState' = r.fileState
        /\ fileData' = r.fileData
        /\ outcome' = r.outcome
        /\ pc' = "done"
    /\ UNCHANGED <<launches, proc, EMOJI_LOADED>>

CallSanitizeName ==
    /\ pc = "idle"
    /\ \E text \in Texts :
        /\ fn' = "sanitize_name"
        /\ args' = [call |-> "sanitize_name", text |-> text, round |-> 1]
        /\ outcome' = Returned(sanitize_name(text, EMOJI_LOADED))
        /\ pc' = "done"
    /\ UNCHANGED <<stdout, launches, proc, fileState, fileData, EMOJI_LOADED>>

\* The caller passes the sanitized name to sanitize_name once more.
SanitizeAgain ==
    /\ pc = "done"
    /\ fn = "sanitize_name"
    /\ args.round = 1
    /\ args' = [call |-> "sanitize_name", text |-> outcome.val, round |-> 2]
    /\ outcome' = Returned(sanitize_name(outcome.val, EMOJI_LOADED))
    /\ UNCHANGED <<pc, fn, stdout, launches, proc, fileState, fileData,
                   EMOJI_LOADED>>

\* The launched daemon terminates (it is stopped, or it fails).
ProcTerminates ==
    /\ pc = "waiting"
    /\ proc = "running"
    /\ proc' = "exited"
    /\ UNCHANGED <<pc, fn, args, outcome, stdout, launches, fileState, fileData,
                   EMOJI_LOADED>>

\* subprocess.run returns once the child has terminated; start_lbry returns
\* None, and check_lbry goes on to `return False`.
SubprocessRunReturns ==
    /\ pc = "waiting"
    /\ proc = "exited"
    /\ pc' = "done"
    /\ outcome' = IF fn = "check_lbry" THEN Returned("False") ELSE Returned("None")
    /\ UNCHANGED <<fn, args, stdout, launches, proc, fileState, fileData,
                   EMOJI_LOADED>>

\* The caller takes the result and is ready for its next call.
NextCall ==
    /\ pc = "done"
    /\ pc' = "idle"
    /\ fn' = "none"
    /\ args' = NoArgs
    /\ outcome' = NoOutcome
    /\ stdout' = <<>>
    /\ launches' = 0
    /\ proc' = "none"
    /\ fileState' = "none"
    /\ fileData' = <<>>
    /\ UNCHANGED EMOJI_LOADED

Next ==
    \/ CallStartLbry
    \/ CallCheckLbry
    \/ CallPrintContent
    \/ CallSanitizeName
    \/ SanitizeAgain
    \/ ProcTerminates
    \/ SubprocessRunReturns
    \/ NextCall

Spec == Init /\ [][Next]_vars

-----------------------------------------------------------------------------
(* Properties of the daemon probe *)

InCheckLbry == fn = "check_lbry" /\ pc # "idle"
DoneCheckLbry == fn = "check_lbry" /\ pc = "done"
Replied == InCheckLbry /\ args.req.net = "ok"
MappingReply == Replied /\ args.req.output.type = "object"
ResultMapping ==
    MappingReply /\ args.req.output.has /\ args.req.output.result.type = "object"
ReplyRunning ==
    ResultMapping /\ args.req.output.result.has /\ args.req.output.result.truthy
ReplyNotRunning ==
    ResultMapping /\ ~(args.req.output.result.has /\ args.req.output.result.truthy)

\* How a call that has invoked start_lbry ends: False when start_lbry
\* returns, the launcher's own exception when there is no executable.
EndsAfterLaunch ==
    /\ launches = 1
    /\ pc = "done" =>
         outcome = IF args.exe THEN Returned("False") ELSE Raised("FileNotFoundError")

\* C1: for every reply with a result mapping whose is_running is true,
\* check_lbry returns True and start_lbry is invoked zero times: the call
\* ends at once, no process is launched and nothing is printed.
C1_RunningReturnsTrue ==
    ReplyRunning =>
        /\ pc = "done"
        /\ outcome = Returned("True")
        /\ launches = 0
        /\ proc = "none"
        /\ stdout = <<>>

C1_Witness == ReplyRunning /\ pc = "done" /\ outcome = Returned("True")

\* C2 as stated: for every connection failure check_lbry reports the error,
\* invokes start_lbry exactly once and returns False.
C2_Original ==
    (DoneCheckLbry /\ args.req.net = "ConnectionError") =>
        /\ stdout = <<ErrMsg("ConnectionError")>>
        /\ launches = 1
        /\ outcome = Returned("False")

\* C2 amended: for every connection failure check_lbry reports the error and
\* invokes start_lbry exactly once; the ConnectionError never reaches the
\* caller; the call returns False when start_lbry returns, and ends with
\* start_lbry's own exception when start_lbry raises.
C2_ConnectionFailure ==
    (InCheckLbry /\ args.req.net = "ConnectionError") =>
        /\ stdout = <<ErrMsg("ConnectionError")>>
        /\ EndsAfterLaunch
        /\ outcome # Raised("ConnectionError")

C2_Witness ==
    /\ DoneCheckLbry
    /\ args.req.net = "ConnectionError"
    /\ launches = 1
    /\ outcome = Returned("False")

\* C3 as stated: for every reply without a result field check_lbry prints a
\* diagnostic message, invokes start_lbry exactly once and returns False.
C3_Original ==
    (DoneCheckLbry /\ MappingReply /\ ~args.req.output.has) =>
        /\ stdout = <<NoResultMsg>>
        /\ launches = 1
        /\ outcome = Returned("False")

\* C3 amended: for every reply that is a mapping without a result field
\* check_lbry prints the diagnostic message and invokes start_lbry exactly
\* once; it returns False when start_lbry returns, and ends with
\* start_lbry's own exception when start_lbry raises.
C3_NoResult ==
    (MappingReply /\ ~args.req.output.has) =>
        /\ stdout = <<NoResultMsg>>
        /\ EndsAfterLaunch

C3_Witness ==
    /\ DoneCheckLbry
    /\ MappingReply
    /\ ~args.req.output.has
    /\ stdout = <<NoResultMsg>>
    /\ outcome = Returned("False")

C9_ReturnsWhileRunning ==
    (pc = "done" /\ fn \in {"start_lbry", "check_lbry"} /\ launches = 1
        /\ outcome.kind = "return") => proc = "running"

\* C10: for every outcome of the status request other than a launcher
\* failure (connection refused, timeout or other request error, a body that
\* is not JSON, a reply lacking result, a reply whose result is not a
\* mapping) check_lbry prints a diagnostic message, invokes start_lbry and
\* returns False instead of raising.
ProbeFailed ==
    \/ args.req.net # "ok"
    \/ args.req.output.type = "object" /\ ~args.req.output.has
    \/ /\ args.req.output.type = "object"
       /\ args.req.output.has
       /\ args.req.output.result.type # "object"

C10_NoProbeFailureIsFatal ==
    (DoneCheckLbry /\ args.exe /\ ProbeFailed) =>
        /\ stdout # <<>>
        /\ launches = 1
        /\ outcome = Returned("False")

-----------------------------------------------------------------------------
(* Properties of print_content *)

DonePrintContent == fn = "print_content" /\ pc = "done"

\* Where line i starts in the joined content, less one.
RECURSIVE Offset(_, _)
Offset(list, i) ==
    IF i = 1 THEN 0 ELSE Offset(list, i - 1) + Len(list[i - 1]) + 1

\* content is the lines of list, in order, with one "\n" between neighbours.
IsJoined(content, list) ==
    /\ Len(content) = Offset(list, Len(list) + 1) - 1
    /\ \A i \in 1..Len(list) :
        /\ SubSeq(content, Offset(list, i) + 1, Offset(list, i) + Len(list[i])) = list[i]
        /\ i < Len(list) => content[Offset(list, i) + Len(list[i]) + 1] = "\n"

\* C5: for any non-empty sequence of lines print_content returns the lines
\* joined by newlines, whether no file was given, the file was opened, or
\* opening it failed with FileNotFoundError or PermissionError.
C5_ReturnsJoined ==
    (DonePrintContent /\ args.output_list # <<>>
        /\ args.opened \in {"none", "ok", "FileNotFoundError", "PermissionError"}) =>
        /\ outcome.kind = "return"
        /\ IsJoined(outcome.val, args.output_list)

C5_Witness ==
    /\ DonePrintContent
    /\ args.opened = "PermissionError"
    /\ args.output_list = <<<<"a">>, <<"b">>>>
    /\ outcome = Returned(<<"a", "\n", "b">>)

ContentPrints == {i \in 1..Len(stdout) : stdout[i].kind = "content"}

\* C6: the content goes to exactly one destination.  A file that opens gets
\* the content, is closed before the return and its final path is reported,
\* and the content is not printed; with no path, or when opening fails with
\* FileNotFoundError or PermissionError, the failure (if any) is reported,
\* the content is printed once, and no exception reaches the caller.
C6_OneDestination ==
    DonePrintContent =>
        /\ args.opened = "ok" =>
            /\ outcome.kind = "return"
            /\ fileState = "closed"
            /\ fileData = outcome.val \o <<"\n">>
            /\ ContentPrints = {}
            /\ Len(stdout) = 1
            /\ stdout[1].kind = "summary"
            /\ LET path == Tail(stdout[1].text) IN
               IF args.fdate
               THEN /\ Len(path) = Len(args.file.path) + 14
                    /\ SubSeq(path, Len(path) - Len(Basename(args.file.path)) + 1,
                              Len(path)) = Basename(args.file.path)
               ELSE path = args.file.path
        /\ args.opened \in {"none", "FileNotFoundError", "PermissionError"} =>
            /\ outcome.kind = "return"
            /\ fileState = "none"
            /\ fileData = <<>>
            /\ ContentPrints = {Len(stdout)}
            /\ stdout[Len(stdout)].text = outcome.val
            /\ IF args.opened = "none"
               THEN Len(stdout) = 1
               ELSE /\ Len(stdout) = 2
                    /\ stdout[1].kind = "error"
                    /\ stdout[1].text[2] = args.opened

C6_Witness ==
    /\ DonePrintContent
    /\ args.opened = "FileNotFoundError"
    /\ args.output_list # <<>>
    /\ Len(stdout) = 2
    /\ stdout[2] = Msg("content", outcome.val)
    /\ fileState = "none"

-----------------------------------------------------------------------------
(* Properties of sanitize_name *)

DoneSanitize == fn = "sanitize_name" /\ pc = "done"

IsRegional(c) == c >= RegionalFirst /\ c <= RegionalLast
IsEmoji(c) == <<c>> \in EmojiKeys

\* C7: sanitize_name maps code point by code point: a regional indicator
\* becomes one placeholder whether or not the dataset is loaded, a
\* single-code-point emoji becomes one placeholder when it is loaded and is
\* kept when it is not, every other character is kept in place; the length
\* is kept, and a text without emoji or flag characters is unchanged.
C7_CodePointWise ==
    DoneSanitize =>
        LET text == args.text
            out == outcome.val
        IN  /\ Len(out) = Len(text)
            /\ \A i \in 1..Len(text) :
                 out[i] = IF IsRegional(text[i]) THEN Placeholder
                          ELSE IF IsEmoji(text[i]) /\ EMOJI_LOADED THEN Placeholder
                          ELSE text[i]
            /\ (\A i \in 1..Len(text) : ~IsRegional(text[i]) /\ ~IsEmoji(text[i]))
                 => out = text

C7_Witness ==
    /\ DoneSanitize
    /\ ~EMOJI_LOADED
    /\ args.text = <<RegionalFirst, RegionalLast, 128512>>
    /\ outcome.val = <<Placeholder, Placeholder, 128512>>

\* C8: sanitize_name is idempotent: sanitizing a sanitized name returns it
\* unchanged, the placeholder being neither a regional indicator nor an
\* entry of the emoji dataset.
C8_Idempotent ==
    /\ ~IsRegional(Placeholder)
    /\ ~IsEmoji(Placeholder)
    /\ (DoneSanitize /\ args.round = 2) => outcome.val = args.text

C8_Witness ==
    /\ DoneSanitize
    /\ args.round = 2
    /\ EMOJI_LOADED
    /\ args.text = <<Placeholder, 65, Placeholder>>
    /\ outcome.val = args.text

====
